---------------------------- MODULE Spec2Model ----------------------------
(***************************************************************************)
(* Request routers of blog/account/users/views.py and                      *)
(* blog/content/sections/views.py: method dispatch, parameter extraction,  *)
(* service delegation inside a fault boundary, and the {code, data}        *)
(* response envelope.                                                      *)
(*                                                                         *)
(* One request is handled at a time (the layer owns no cross-request       *)
(* state): the framework delivers a request (Receive), the router and the  *)
(* selected handler run to completion (one action per handler), and the    *)
(* framework takes the returned value (Reply).                             *)
(*                                                                         *)
(* Python values are tagged records: None, str (a sequence of one-char     *)
(* strings), bool, list.  The code is Python 2 (it names `unicode`), so    *)
(* map() is eager: every service call of a batch delete is made, in order, *)
(* before the results are inspected.                                       *)
(***************************************************************************)
EXTENDS Integers, Sequences, FiniteSets, TLC

VARIABLES pc, request, invoked, reads, calls, response

vars == <<pc, request, invoked, reads, calls, response>>

(* ------------------------------ bounds -------------------------------- *)

\* longest ';'-delimited string sent as group_ids / id_list of the user routes
MaxLen == 5

\* longest string sent in a list-valued field of the section route
MaxSecLen == 1

\* most fields one request carries
MaxPresent == 2

(* --------------------------- Python values ---------------------------- *)

PyNone == [t |-> "None"]

Str(s) == [t |-> "str", v |-> s]

Bool(b) == [t |-> "bool", v |-> b]

List(l) == [t |-> "list", v |-> l]

Msg(m) == [t |-> "msg", v |-> m]

IsStr(x) == x.t = "str"

\* Python truthiness of a path identifier: None and '' are falsy
Truthy(x) == x # PyNone /\ x # Str(<<>>)

Chars == {"a", ";"}

TrueStr == <<"t", "r", "u", "e">>

RECURSIVE StringsOfLen(_)
StringsOfLen(n) ==
    IF n = 0 THEN {<<>>}
    ELSE {Append(s, c) : s \in StringsOfLen(n - 1), c \in Chars}

StringsUpTo(n) == UNION {StringsOfLen(k) : k \in 0..n}

(* ---------------------------- ErrorMsg -------------------------------- *)

REQUEST_ERROR == "ErrorMsg.REQUEST_ERROR"

REQUEST_METHOD_ERROR == "ErrorMsg.REQUEST_METHOD_ERROR"

PARAMS_ERROR == "ErrorMsg.PARAMS_ERROR"

(* ----------------------- ';'-delimited lists --------------------------- *)

\* str.split(';'): the segments between separators, empty ones included
RECURSIVE split(_)
split(s) ==
    IF s = <<>> THEN << <<>> >>
    ELSE LET rest == split(Tail(s))
         IN IF Head(s) = ";" THEN << <<>> >> \o rest
            ELSE << <<Head(s)>> \o Head(rest) >> \o Tail(rest)

\* a mutated comprehension: the `if item` filter is dropped
split_nonempty_nofilter(s) == split(s)

\* [item for item in s.split(';') if item]
split_nonempty(s) == SelectSeq(split(s), LAMBDA seg : seg # <<>>)


(* ------------------------------ fields -------------------------------- *)

\* UserService.USER_PRIVACY_FIELD
USER_PRIVACY_FIELD ==
    {"gender_privacy", "email_privacy", "phone_privacy", "qq_privacy",
     "address_privacy"}

\* the query parameters user_list reads
ListFields ==
    {"page", "page_size", "order_field", "order", "query", "query_field"}

\* the named form fields user_create reads
CreateFields ==
    {"username", "password", "nick", "role_id", "group_ids", "gender",
     "email", "phone", "qq", "address", "status", "remark"}

\* the named body fields user_update reads
UpdateFields ==
    {"username", "old_password", "new_password", "nick", "role_id",
     "group_ids", "gender", "email", "phone", "qq", "address", "remark"}

\* the body fields user_delete reads
DeleteFields == {"id_list", "force"}

\* the form fields section_create reads
SectionFields ==
    {"name", "nick", "description", "moderator_uuids", "assistant_uuids",
     "status", "level", "only_roles", "role_ids", "only_groups", "group_ids"}

SectionListFields ==
    {"moderator_uuids", "assistant_uuids", "role_ids", "group_ids"}

FlagFields == {"force", "only_roles", "only_groups"}

\* the fields the API documents as required (no brackets in @apiParam)
RequiredFields == {"username", "password", "name"}

(* ----------------------------- requests ------------------------------- *)

Resources == {"users", "sections"}

Methods == {"GET", "POST", "PUT", "DELETE", "PATCH"}

\* the path identifier: absent, or one identifier
PathIds == {PyNone, Str(<<"a">>)}

\* the fields a client sends with a request of this resource and method
RequestFields(resource, method) ==
    IF resource = "users"
    THEN CASE method = "GET" -> ListFields
           [] method = "POST" -> CreateFields \cup USER_PRIVACY_FIELD
           [] method = "PUT" -> UpdateFields \cup USER_PRIVACY_FIELD
           [] OTHER -> DeleteFields
    ELSE IF method = "POST" THEN SectionFields ELSE DeleteFields

\* the values a client sends in a field
FieldValues(resource, f) ==
    IF f \in FlagFields
    THEN {Str(TrueStr), Str(<<"a">>), Str(<<>>)}
    ELSE IF resource = "users" /\ f \in {"group_ids", "id_list"}
    THEN {Str(s) : s \in StringsUpTo(MaxLen)}
    ELSE IF resource = "sections" /\ f \in SectionListFields
    THEN {Str(s) : s \in StringsUpTo(MaxSecLen)}
    ELSE {Str(<<"a">>)}

\* the parameter sets that carry exactly the fields P
RECURSIVE ParamsOver(_, _)
ParamsOver(resource, P) ==
    IF P = {} THEN {[f \in {} |-> PyNone]}
    ELSE LET f == CHOOSE g \in P : TRUE
         IN {(f :> v) @@ p : v \in FieldValues(resource, f),
                              p \in ParamsOver(resource, P \ {f})}

\* the parameter sets of a request: at most MaxPresent fields, each with a value
ParamSets(resource, method) ==
    UNION {ParamsOver(resource, P) :
             P \in {Q \in SUBSET RequestFields(resource, method) :
                      Cardinality(Q) <= MaxPresent}}

\* QueryDict.get(key): the value, None when the key is absent
Get(params, key) == IF key \in DOMAIN params THEN params[key] ELSE PyNone

(* ------------------------- service outcomes --------------------------- *)

\* an exception object that carries no `code` and no `message` attribute
NoAttrs == [a \in {} |-> 0]

\* a fault raised by a service: a record of the attributes it carries, each
\* of `code` and `message` present or not (a built-in Python 2 exception
\* always has `message`; the handlers probe for both all the same)
Faults ==
    {[code |-> 403, message |-> "Permission denied"], [code |-> 403],
     [message |-> "Permission denied"], NoAttrs}

\* ParamsError(): the parameter error of blog.common.error
ParamsError == [code |-> 400, message |-> PARAMS_ERROR]

Return(code, data) == [t |-> "return", code |-> code, data |-> data]

Raise(e) == [t |-> "raise", e |-> e]

\* what get, list, create, update do: return (code, data) or raise
ServiceOutcomes(op) ==
    {Return(c, [t |-> "payload", v |-> op]) : c \in {200, 404}}
        \cup {Raise(e) : e \in Faults}

\* what delete does for one identifier: return a per-item result or raise
DeleteOutcomes ==
    {[t |-> "return", status |-> s] : s \in {"SUCCESS", "FAILURE"}}
        \cup {Raise(e) : e \in Faults}

\* the per-item result {status, id, name} of a delete that returned
ItemResult(params, out) ==
    [status |-> out.status, id |-> params.delete_id, name |-> "name"]

Call(op, args, out) == [op |-> op, args |-> args, out |-> out]

(* ------------------------ response translation ------------------------ *)

Response(code, data) == [t |-> "Response", code |-> code, data |-> data]

NoResponse == [t |-> "pending"]

\* getattr(e, name, default)
GetAttr(e, name, default) == IF name \in DOMAIN e THEN e[name] ELSE default

\* a mutated except clause: the default code is 500
FaultResponse_500(e) ==
    Response(GetAttr(e, "code", 500), Msg(GetAttr(e, "message", REQUEST_ERROR)))

\* except Exception as e: code, data = getattr(e, 'code', 400),
\*                                    getattr(e, 'message', ErrorMsg.REQUEST_ERROR)
FaultResponse(e) ==
    Response(GetAttr(e, "code", 400), Msg(GetAttr(e, "message", REQUEST_ERROR)))

\* try: code, data = Service(request).op(...) except ...; return Response(code, data)
Translate(out) ==
    IF out.t = "return" THEN Response(out.code, out.data)
    ELSE FaultResponse(out.e)


(* ------------------------------ routers ------------------------------- *)

\* a mutated dispatch: GET ignores the identifier and always lists
user_operate_always_list(method, uuid) ==
    CASE method = "GET" -> "user_list"
      [] method = "POST" -> "user_create"
      [] method = "PUT" -> "user_update"
      [] method = "DELETE" -> "user_delete"
      [] OTHER -> "method_error"

\* a mutated dispatch: the DELETE test is missing and delete is the else branch
user_operate_delete_else(method, uuid) ==
    CASE method = "GET" -> IF ~Truthy(uuid) THEN "user_list" ELSE "user_get"
      [] method = "POST" -> "user_create"
      [] method = "PUT" -> "user_update"
      [] OTHER -> "user_delete"

\* user_operate: the handler the method and the path identifier select
user_operate(method, uuid) ==
    CASE method = "GET" -> IF ~Truthy(uuid) THEN "user_list" ELSE "user_get"
      [] method = "POST" -> "user_create"
      [] method = "PUT" -> "user_update"
      [] method = "DELETE" -> "user_delete"
      [] OTHER -> "method_error"

\* section_operate: the handler the method and the path identifier select
section_operate(method, section_id) ==
    CASE method = "GET" ->
             IF ~Truthy(section_id) THEN "section_list" ELSE "section_get"
      [] method = "POST" -> "section_create"
      [] method = "PUT" -> "section_update"
      [] method = "DELETE" -> "section_delete"
      [] OTHER -> "method_error"

\* the router of the request's resource, applied to the request
Selected ==
    IF request.resource = "users"
    THEN user_operate(request.method, request.uuid)
    ELSE section_operate(request.method, request.uuid)

NoRequest == [resource |-> "none", method |-> "none", uuid |-> PyNone,
              params |-> [f \in {} |-> PyNone]]

Init ==
    /\ pc = "idle"
    /\ request = NoRequest
    /\ invoked = <<>>
    /\ reads = {}
    /\ calls = <<>>
    /\ response = NoResponse

\* the framework hands a request to the router of its resource
Receive ==
    /\ pc = "idle"
    /\ \E resource \in Resources, method \in Methods, uuid \in PathIds :
         \E params \in ParamSets(resource, method) :
           request' = [resource |-> resource, method |-> method,
                       uuid |-> uuid, params |-> params]
    /\ pc' = "received"
    /\ UNCHANGED <<invoked, reads, calls, response>>

\* the router of the resource takes the branch h: it calls the handler h, or
\* builds the 405 response itself (the else branch calls no handler)
Dispatched(resource, h) ==
    /\ pc = "received"
    /\ request.resource = resource
    /\ Selected = h
    /\ invoked' = IF h = "method_error" THEN <<>> ELSE <<h>>
    /\ pc' = "done"
    /\ UNCHANGED request

(* ---------------------------- user handlers --------------------------- *)

user_get ==
    /\ Dispatched("users", "user_get")
    /\ reads' = {}
    /\ \E out \in ServiceOutcomes("get") :
         /\ calls' = <<Call("get", [user_uuid |-> request.uuid], out)>>
         /\ response' = Translate(out)

user_list ==
    /\ Dispatched("users", "user_list")
    /\ reads' = ListFields
    /\ \E out \in ServiceOutcomes("list") :
         /\ calls' = <<Call("list",
                            [f \in ListFields |-> Get(request.params, f)],
                            out)>>
         /\ response' = Translate(out)

\* kwargs: the privacy fields the request carries
PrivacyKwargs(data) == {key \in USER_PRIVACY_FIELD : Get(data, key) # PyNone}

\* a mutated user_create: an omitted nick is defaulted by the router
user_create_args_default_nick(data) ==
    [f \in CreateFields \cup PrivacyKwargs(data) |->
       IF f = "group_ids"
       THEN IF IsStr(Get(data, f)) THEN List(split_nonempty(Get(data, f).v))
            ELSE List(<<>>)
       ELSE IF f = "nick" /\ Get(data, f) = PyNone THEN Get(data, "username")
       ELSE Get(data, f)]

\* the keyword arguments user_create passes to UserService.create
user_create_args(data) ==
    [f \in CreateFields \cup PrivacyKwargs(data) |->
       IF f = "group_ids"
       THEN IF IsStr(Get(data, f)) THEN List(split_nonempty(Get(data, f).v))
            ELSE List(<<>>)
       ELSE Get(data, f)]

user_create ==
    /\ Dispatched("users", "user_create")
    /\ reads' = CreateFields \cup USER_PRIVACY_FIELD
    /\ \E out \in ServiceOutcomes("create") :
         /\ calls' = <<Call("create", user_create_args(request.params), out)>>
         /\ response' = Translate(out)

\* the keyword arguments user_update passes to UserService.update
user_update_args(uuid, data) ==
    [f \in {"user_uuid"} \cup UpdateFields \cup PrivacyKwargs(data) |->
       IF f = "user_uuid" THEN uuid
       ELSE IF f = "group_ids"
       THEN IF IsStr(Get(data, f)) THEN List(split_nonempty(Get(data, f).v))
            ELSE PyNone
       ELSE Get(data, f)]

user_update ==
    /\ Dispatched("users", "user_update")
    /\ reads' = UpdateFields \cup USER_PRIVACY_FIELD
    /\ \E out \in ServiceOutcomes("update") :
         /\ calls' = <<Call("update",
                            user_update_args(request.uuid, request.params),
                            out)>>
         /\ response' = Translate(out)

user_method_error ==
    /\ Dispatched("users", "method_error")
    /\ reads' = {}
    /\ calls' = <<>>
    /\ response' = Response(405, Msg(REQUEST_METHOD_ERROR))

\* data.get('force') == 'true'
ForceFlag(data) == Bool(Get(data, "force") = Str(TrueStr))

\* a mutated user_delete: the isinstance check is missing, so None.split
\* raises a fault that carries no code and no message
delete_id_list_unchecked(uuid, data) ==
    IF Truthy(uuid)
    THEN List(<<[delete_id |-> uuid, force |-> ForceFlag(data)]>>)
    ELSE IF ~IsStr(Get(data, "id_list"))
    THEN Raise(NoAttrs)
    ELSE LET ids == split_nonempty(Get(data, "id_list").v)
         IN List([i \in 1..Len(ids) |->
                    [delete_id |-> Str(ids[i]), force |-> ForceFlag(data)]])

\* a mutated user_delete: only the first delete-request carries the force flag
delete_id_list_force_first(uuid, data) ==
    IF Truthy(uuid)
    THEN List(<<[delete_id |-> uuid, force |-> ForceFlag(data)]>>)
    ELSE IF ~IsStr(Get(data, "id_list")) THEN Raise(ParamsError)
    ELSE LET ids == split_nonempty(Get(data, "id_list").v)
         IN List([i \in 1..Len(ids) |->
                    [delete_id |-> Str(ids[i]),
                     force |-> IF i = 1 THEN ForceFlag(data) ELSE Bool(FALSE)]])

\* user_delete: the delete-requests of the request, or the ParamsError raised
\* before any of them is built
delete_id_list(uuid, data) ==
    IF Truthy(uuid)
    THEN List(<<[delete_id |-> uuid, force |-> ForceFlag(data)]>>)
    ELSE IF ~IsStr(Get(data, "id_list")) THEN Raise(ParamsError)
    ELSE LET ids == split_nonempty(Get(data, "id_list").v)
         IN List([i \in 1..Len(ids) |->
                    [delete_id |-> Str(ids[i]), force |-> ForceFlag(data)]])

\* the index of the first service call that raises, 0 when none does
FirstRaise(outs) ==
    IF \E i \in 1..Len(outs) : outs[i].t = "raise"
    THEN CHOOSE i \in 1..Len(outs) :
           /\ outs[i].t = "raise"
           /\ \A j \in 1..(i - 1) : outs[j].t # "raise"
    ELSE 0

\* a mutated map: a raising call is swallowed and the remaining calls are made
delete_calls_continue(id_list, outs) ==
    [i \in 1..Len(id_list) |-> Call("delete", id_list[i], outs[i])]

\* map(lambda params: UserService(request).delete(**params), id_list):
\* the calls made, in order, up to and including the first one that raises
delete_calls(id_list, outs) ==
    LET k == FirstRaise(outs)
        made == IF k = 0 THEN Len(id_list) ELSE k
    IN [i \in 1..made |-> Call("delete", id_list[i], outs[i])]

\* a mutated aggregation: 200 only when every item succeeded
delete_code_all(results) ==
    IF \A i \in 1..Len(results) : results[i].status = "SUCCESS"
    THEN 200 ELSE 400

\* code = 400; for result in data: if result['status'] == 'SUCCESS': code = 200
delete_code(results) ==
    IF \E i \in 1..Len(results) : results[i].status = "SUCCESS"
    THEN 200 ELSE 400

\* the per-item results of calls that all returned
Results(made) == [i \in 1..Len(made) |-> ItemResult(made[i].args, made[i].out)]

user_delete ==
    /\ Dispatched("users", "user_delete")
    /\ reads' = IF Truthy(request.uuid) THEN {"force"} ELSE {"force", "id_list"}
    /\ LET id_list == delete_id_list(request.uuid, request.params)
       IN IF id_list.t = "raise"
          THEN /\ calls' = <<>>
               /\ response' = FaultResponse(id_list.e)
          ELSE \E outs \in [1..Len(id_list.v) -> DeleteOutcomes] :
                 LET made == delete_calls(id_list.v, outs)
                     k == FirstRaise(outs)
                 IN /\ calls' = made
                    /\ response' =
                         IF k # 0 THEN FaultResponse(outs[k].e)
                         ELSE Response(delete_code(Results(made)),
                                       List(Results(made)))

(* -------------------------- section handlers -------------------------- *)

\* def section_get(request, section_id): pass   -- the handler returns None
section_get ==
    /\ Dispatched("sections", "section_get")
    /\ reads' = {}
    /\ calls' = <<>>
    /\ response' = PyNone

\* def section_list(request): pass
section_list ==
    /\ Dispatched("sections", "section_list")
    /\ reads' = {}
    /\ calls' = <<>>
    /\ response' = PyNone

\* def section_update(request, section_id): pass
section_update ==
    /\ Dispatched("sections", "section_update")
    /\ reads' = {}
    /\ calls' = <<>>
    /\ response' = PyNone

\* def section_delete(request, section_id): pass
section_delete ==
    /\ Dispatched("sections", "section_delete")
    /\ reads' = {}
    /\ calls' = <<>>
    /\ response' = PyNone

\* str_to_list of blog.common.utils: the non-empty ';'-separated segments of a
\* string; an absent field stays unset
str_to_list(x) == IF IsStr(x) THEN List(split_nonempty(x.v)) ELSE PyNone

\* the keyword arguments section_create passes to SectionService.create
section_create_args(data) ==
    [f \in SectionFields |->
       IF f \in {"only_roles", "only_groups"} THEN Bool(Get(data, f) = Str(TrueStr))
       ELSE IF f \in SectionListFields THEN str_to_list(Get(data, f))
       ELSE Get(data, f)]

section_create ==
    /\ Dispatched("sections", "section_create")
    /\ reads' = SectionFields
    /\ \E out \in ServiceOutcomes("create") :
         /\ calls' = <<Call("create", section_create_args(request.params), out)>>
         /\ response' = Translate(out)

section_method_error ==
    /\ Dispatched("sections", "method_error")
    /\ reads' = {}
    /\ calls' = <<>>
    /\ response' = Response(405, Msg(REQUEST_METHOD_ERROR))

(* --------------------------- specification ---------------------------- *)

\* the router has returned; the next request starts from a clean slate
Reply ==
    /\ pc = "done"
    /\ pc' = "idle"
    /\ request' = NoRequest
    /\ invoked' = <<>>
    /\ reads' = {}
    /\ calls' = <<>>
    /\ response' = NoResponse

Next ==
    \/ Receive
    \/ user_get
    \/ user_list
    \/ user_create
    \/ user_update
    \/ user_delete
    \/ user_method_error
    \/ section_get
    \/ section_list
    \/ section_create
    \/ section_update
    \/ section_delete
    \/ section_method_error
    \/ Reply

Spec == Init /\ [][Next]_vars

(* ------------------------------ claims -------------------------------- *)

Done == pc = "done"

SupportedMethods == {"GET", "POST", "PUT", "DELETE"}

\* the operation a handler implements
HandlerKind ==
    [user_list |-> "list", user_get |-> "get", user_create |-> "create",
     user_update |-> "update", user_delete |-> "delete",
     section_list |-> "list", section_get |-> "get",
     section_create |-> "create", section_update |-> "update",
     section_delete |-> "delete"]

\* the handler names of the request's resource
HandlersOfResource ==
    IF request.resource = "users"
    THEN {"user_list", "user_get", "user_create", "user_update", "user_delete"}
    ELSE {"section_list", "section_get", "section_create", "section_update",
          "section_delete"}

\* C1: every request the router has handled, on either route, with any method,
\* identifier and service outcome, has produced exactly one {code, data}
\* envelope: the router's return value is never bare or missing.
C1_EveryRequestYieldsEnvelope == Done => response.t = "Response"

\* C2: the router invokes exactly one handler of its resource, once, as the
\* table says (GET without identifier: list; GET with identifier: get;
\* POST: create; PUT with identifier: update; DELETE: delete); any other
\* method invokes no handler and yields code 405.
C2_RouterTable ==
    Done =>
      LET m == request.method
          id == Truthy(request.uuid)
      IN /\ m \in SupportedMethods =>
              /\ Len(invoked) = 1
              /\ invoked[1] \in HandlersOfResource
         /\ m = "GET" /\ ~id => HandlerKind[invoked[1]] = "list"
         /\ m = "GET" /\ id => HandlerKind[invoked[1]] = "get"
         /\ m = "POST" => HandlerKind[invoked[1]] = "create"
         /\ m = "PUT" /\ id => HandlerKind[invoked[1]] = "update"
         /\ m = "DELETE" => HandlerKind[invoked[1]] = "delete"
         /\ m \notin SupportedMethods =>
              /\ invoked = <<>>
              /\ response.t = "Response"
              /\ response.code = 405

\* C2 witness: a GET with an identifier has reached the get-by-id handler
C2_Witness ==
    /\ Done
    /\ request.resource = "users"
    /\ request.method = "GET"
    /\ request.uuid = Str(<<"a">>)
    /\ invoked = <<"user_get">>

C6_MethodNotAllowed ==
    Done /\ request.method \notin SupportedMethods =>
      /\ response = Response(405, Msg(REQUEST_METHOD_ERROR))
      /\ reads = {}
      /\ calls = <<>>

\* C6 witness: a PATCH that carries an identifier and parameters was refused
C6_Witness ==
    /\ Done
    /\ request.resource = "users"
    /\ request.method = "PATCH"
    /\ request.uuid # PyNone
    /\ DOMAIN request.params = {"id_list", "force"}
    /\ response.code = 405

\* the handler has run for a user delete request
UserDelete == Done /\ invoked = <<"user_delete">>

\* a batch delete: no path identifier, id_list a ';'-delimited string
BatchDelete ==
    /\ UserDelete
    /\ ~Truthy(request.uuid)
    /\ IsStr(Get(request.params, "id_list"))

\* the non-empty identifier segments of the batch's id_list, in order
BatchIds == split_nonempty(Get(request.params, "id_list").v)

\* the force flag of the request
RequestForce == Bool(Get(request.params, "force") = Str(TrueStr))

AllReturned == \A i \in 1..Len(calls) : calls[i].out.t = "return"

\* C4: when every service call of a user delete returned a per-item result,
\* the envelope's code is 200 if at least one result has status SUCCESS and
\* 400 otherwise (also when no item was processed), and data is the list of
\* the per-item results; partial success is 200.
C4_DeleteAggregate ==
    /\ UserDelete
    /\ Truthy(request.uuid) \/ IsStr(Get(request.params, "id_list"))
    /\ AllReturned
    => /\ response.t = "Response"
       /\ response.code =
            (IF \E i \in 1..Len(calls) : calls[i].out.status = "SUCCESS"
             THEN 200 ELSE 400)
       /\ response.data =
            List([i \in 1..Len(calls) |->
                    [status |-> calls[i].out.status,
                     id |-> calls[i].args.delete_id,
                     name |-> "name"]])

\* C4 witness: one item failed, one succeeded, and the envelope's code is 200
C4_Witness ==
    /\ BatchDelete
    /\ Len(calls) = 2
    /\ calls[1].out.t = "return" /\ calls[1].out.status = "FAILURE"
    /\ calls[2].out.t = "return" /\ calls[2].out.status = "SUCCESS"
    /\ response.code = 200

\* C5: a user DELETE without path identifier whose id_list is absent (not a
\* string) gets code 400 with the parameter-error message, and no service
\* call was made for the request.
C5_MalformedBatch ==
    /\ Done
    /\ request.resource = "users"
    /\ request.method = "DELETE"
    /\ ~Truthy(request.uuid)
    /\ ~IsStr(Get(request.params, "id_list"))
    => /\ response = Response(400, Msg(PARAMS_ERROR))
       /\ calls = <<>>

\* C5 witness: a DELETE that carries only a force flag was refused
C5_Witness ==
    /\ UserDelete
    /\ request.uuid = PyNone
    /\ DOMAIN request.params = {"force"}
    /\ response.code = 400
    /\ response.data = Msg(PARAMS_ERROR)

\* the delete-request of the i-th identifier of the batch
ExpectedDelete(i) == [delete_id |-> Str(BatchIds[i]), force |-> RequestForce]

\* C8 as stated: in a batch delete the service delete is invoked exactly once
\* per non-empty identifier segment, in id_list order, each invocation with
\* the request's force flag, and data holds one per-item result per
\* identifier in that order.
C8_OncePerIdentifier ==
    BatchDelete =>
      /\ Len(calls) = Len(BatchIds)
      /\ \A i \in 1..Len(calls) :
           calls[i].op = "delete" /\ calls[i].args = ExpectedDelete(i)
      /\ response.data.t = "list"
      /\ Len(response.data.v) = Len(BatchIds)
      /\ \A i \in 1..Len(BatchIds) : response.data.v[i].id = Str(BatchIds[i])

\* C8 amended: the invocations are made in id_list order, at most one per
\* non-empty segment, each with the request's force flag, and stop only at
\* an invocation that raises; when none raises there is exactly one per
\* segment and data holds one per-item result per identifier in that order.
C8_InOrderUntilFault ==
    BatchDelete =>
      /\ Len(calls) <= Len(BatchIds)
      /\ \A i \in 1..Len(calls) :
           /\ calls[i].op = "delete" /\ calls[i].args = ExpectedDelete(i)
           /\ i < Len(calls) => calls[i].out.t = "return"
      /\ Len(calls) < Len(BatchIds) =>
           calls # <<>> /\ calls[Len(calls)].out.t = "raise"
      /\ AllReturned =>
           /\ Len(calls) = Len(BatchIds)
           /\ response.data.t = "list"
           /\ Len(response.data.v) = Len(BatchIds)
           /\ \A i \in 1..Len(BatchIds) :
                response.data.v[i].id = Str(BatchIds[i])

\* C8 witness: a forced batch of two different identifiers was deleted in order
C8_Witness ==
    /\ BatchDelete
    /\ RequestForce = Bool(TRUE)
    /\ Len(calls) = 2
    /\ AllReturned
    /\ calls[1].args = [delete_id |-> Str(<<"a">>), force |-> Bool(TRUE)]
    /\ calls[2].args = [delete_id |-> Str(<<"a", "a">>), force |-> Bool(TRUE)]
    /\ response.data.v[2].id = Str(<<"a", "a">>)

\* C10: in a batch delete, if the service call for the k-th identifier
\* raises, the calls for the identifiers before it have been made (and
\* returned), no call is made for an identifier after it, and the envelope
\* holds only the fault's code and message (400 / generic message by
\* default), not the per-item results, even if an earlier item succeeded.
C10_FaultAbortsBatch ==
    BatchDelete /\ ~AllReturned =>
      LET k == CHOOSE i \in 1..Len(calls) :
                 /\ calls[i].out.t = "raise"
                 /\ \A j \in 1..(i - 1) : calls[j].out.t = "return"
          e == calls[k].out.e
      IN /\ Len(calls) = k
         /\ k <= Len(BatchIds)
         /\ \A i \in 1..k :
              calls[i].op = "delete" /\ calls[i].args = ExpectedDelete(i)
         /\ response.t = "Response"
         /\ response.code = (IF "code" \in DOMAIN e THEN e.code ELSE 400)
         /\ response.data =
              Msg(IF "message" \in DOMAIN e THEN e.message ELSE REQUEST_ERROR)

\* C10 witness: of three identifiers the first was deleted, the second
\* raised, the third was never tried, and the success is not in the envelope
C10_Witness ==
    /\ BatchDelete
    /\ Len(BatchIds) = 3
    /\ Len(calls) = 2
    /\ calls[1].out.t = "return" /\ calls[1].out.status = "SUCCESS"
    /\ calls[2].out.t = "raise"
    /\ response.data.t = "msg"

\* a create, update or list handler has made its service call
FieldHandlers == {"user_list", "user_create", "user_update", "section_create"}

FieldCall == Done /\ invoked # <<>> /\ invoked[1] \in FieldHandlers

\* the optional fields of the handler that the request omits
OmittedOptional == (reads \ RequiredFields) \ DOMAIN request.params

RECURSIVE join(_)
join(l) ==
    IF l = <<>> THEN <<>>
    ELSE IF Len(l) = 1 THEN l[1]
    ELSE l[1] \o <<";">> \o join(Tail(l))

\* s without its empty segments: no leading, doubled or trailing ';'
RECURSIVE Squeeze(_, _)
Squeeze(acc, rest) ==
    IF rest = <<>>
    THEN IF acc # <<>> /\ acc[Len(acc)] = ";" THEN SubSeq(acc, 1, Len(acc) - 1)
         ELSE acc
    ELSE IF Head(rest) = ";" /\ (acc = <<>> \/ acc[Len(acc)] = ";")
    THEN Squeeze(acc, Tail(rest))
    ELSE Squeeze(Append(acc, Head(rest)), Tail(rest))

\* l holds exactly the non-empty segments of s, in order, duplicates kept,
\* and survives joining with ';' and extracting again
ExtractedFrom(s, l) ==
    /\ \A i \in 1..Len(l) :
         l[i] # <<>> /\ \A j \in 1..Len(l[i]) : l[i][j] # ";"
    /\ join(l) = Squeeze(<<>>, s)
    /\ split_nonempty(join(l)) = l

\* C9: the list extracted from a ';'-delimited input (group_ids of user
\* create and update, id_list of user delete) holds exactly the non-empty
\* segments in their original order, duplicates kept; joining it with ';'
\* and extracting again yields the same list.
C9_SplitRoundTrip ==
    /\ Done /\ invoked # <<>> /\ invoked[1] \in {"user_create", "user_update"}
         /\ IsStr(Get(request.params, "group_ids"))
         => /\ calls[1].args["group_ids"].t = "list"
            /\ ExtractedFrom(request.params["group_ids"].v,
                             calls[1].args["group_ids"].v)
    /\ BatchDelete /\ AllReturned
         => ExtractedFrom(request.params["id_list"].v,
                          [i \in 1..Len(calls) |-> calls[i].args.delete_id.v])

\* C9 witness: ';a;;a' was extracted as the two identifiers a, a
C9_Witness ==
    /\ Done
    /\ invoked = <<"user_update">>
    /\ Get(request.params, "group_ids") = Str(<<";", "a", ";", ";", "a">>)
    /\ calls[1].args["group_ids"] = List(<< <<"a">>, <<"a">> >>)

=============================================================================
